---------------------------- MODULE Spec2Model ----------------------------
(***************************************************************************)
(* Model of src/src/broadcast-server.ts: one Node process that, depending  *)
(* on its first command-line argument, runs a WebSocket broadcast hub      *)
(* (startServer) or an interactive peer (startClient).                     *)
(*                                                                         *)
(* Every action is one callback of the event loop, run to completion.      *)
(* The callbacks of the `ws` transport that the program relies on (client  *)
(* tracking in wss.clients, readyState transitions, emission of 'error'    *)
(* and 'close') are part of the actions that the program's handlers hang   *)
(* on.                                                                     *)
(***************************************************************************)
EXTENDS Integers, Sequences, FiniteSets

\* ------------------------------------------------------------------ bounds
MaxConns == 2        \* connections the hub accepts during one run
MaxMsgs  == 2        \* inbound messages the hub processes during one run
MaxLen   == 1        \* bytes in one inbound payload
MaxLines == 2        \* input lines the peer reads during one run
MaxPeerMsgs == 1     \* messages the peer receives during one run
MaxSignals == 2      \* shutdown signals the hub handles during one run

Conns == 1..MaxConns

\* Bytes that payloads are made of: 'h', and the two bytes of U+00E9, each
\* of which is an invalid UTF-8 sequence when it stands alone.
Bytes == {104, 195, 169}

\* Characters of input lines typed at the peer: 'h', 'i'.
LineChars == {104, 105}

\* Command words as sequences of character codes.
WordStart   == <<115, 116, 97, 114, 116>>
WordSTART   == <<83, 84, 65, 82, 84>>
WordConnect == <<99, 111, 110, 110, 101, 99, 116>>
WordConnecT == <<67, 111, 110, 110, 101, 99, 84>>
WordBogus   == <<115, 116, 111, 112>>

\* process.argv.slice(2) of the runs that are explored.
Argvs ==
  { <<>>, <<WordStart>>, <<WordSTART>>, <<WordConnect>>, <<WordConnecT>>,
    <<WordBogus>>, <<WordBogus, WordStart>>, <<WordStart, WordBogus>> }

\* ------------------------------------------------------------------- state
VARIABLES
  argv,        \* process.argv.slice(2)
  mode,        \* "init" | "hub" | "peer" | "usage"
  proc,        \* "running" | "exited" (process.exit) | "drained" | "crashed"
  exitCode,    \* -1 while the process lives, else its exit code
  exitCalls,   \* number of process.exit calls
  calls,       \* the close, wss.close and process.exit calls in program order
  listener,    \* "none" | "binding" | "listening" | "failed" | "closing" | "closed"
  clients,     \* wss.clients
  readyState,  \* readyState of every hub-side connection, "NONE" before accept
  sock,        \* TCP socket under every hub-side connection
  closeReq,    \* number of client.close(1001, ...) calls per connection
  errored,     \* connections whose 'error' callback has run
  inbound,     \* inbound messages in the order the hub processed them, each
               \* with the connections that were removed from wss.clients,
               \* OPEN members, and members with a broken socket at that time
  sendLog,     \* client.send calls in program order
  shutdowns,   \* number of runs of closeAllConnections
  peerState,   \* readyState of the peer's connection, "NONE" before connect
  rlActive,    \* the readline interface exists
  peerSent,    \* lines passed to ws.send, in order
  peerNotices, \* number of "Connection is not open" notices
  peerOut,     \* lines printed for inbound messages, in order
  peerCloseReq,\* number of ws.close(1000, ...) calls
  peerErrors,  \* number of runs of the peer's 'error' callback
  peerRead,    \* input lines in the order read, each with whether the
               \* connection was OPEN when it was read
  peerCloseCode \* close code of the peer's connection, -1 while it has none

procVars == <<argv, mode, proc, exitCode, exitCalls, calls>>
hubVars  == <<listener, clients, readyState, sock, closeReq, errored,
              inbound, sendLog, shutdowns>>
peerVars == <<peerState, rlActive, peerSent, peerNotices, peerOut,
              peerCloseReq, peerErrors, peerRead, peerCloseCode>>
vars == <<argv, mode, proc, exitCode, exitCalls, calls,
          listener, clients, readyState, sock, closeReq, errored,
          inbound, sendLog, shutdowns,
          peerState, rlActive, peerSent, peerNotices, peerOut,
          peerCloseReq, peerErrors, peerRead, peerCloseCode>>

\* ------------------------------------------------------- text conversions
RECURSIVE SeqsUpTo(_, _)
SeqsUpTo(S, n) ==
  IF n = 0 THEN { <<>> }
  ELSE LET shorter == SeqsUpTo(S, n - 1)
       IN  shorter \cup { Append(s, x) : s \in shorter, x \in S }

IsCont(b) == b >= 128 /\ b <= 191

\* Range of the second byte that may follow lead byte b.
SecondLo(b) == IF b = 224 THEN 160 ELSE IF b = 240 THEN 144 ELSE 128
SecondHi(b) == IF b = 237 THEN 159 ELSE IF b = 244 THEN 143 ELSE 191

\* Number of bytes of the sequence that lead byte b starts, 0 if b cannot
\* start one.
SeqLen(b) ==
  IF b < 128 THEN 1
  ELSE IF b >= 194 /\ b <= 223 THEN 2
  ELSE IF b >= 224 /\ b <= 239 THEN 3
  ELSE IF b >= 240 /\ b <= 244 THEN 4
  ELSE 0

\* Number of bytes at position i that form a well-formed prefix of a
\* sequence (the "maximal subpart"), and whether the sequence is complete.
RECURSIVE ContRun(_, _, _)
ContRun(bs, i, n) ==
  IF n = 0 \/ i > Len(bs) \/ ~IsCont(bs[i]) THEN 0
  ELSE 1 + ContRun(bs, i + 1, n - 1)

Subpart(bs, i) ==
  LET b == bs[i]
      n == SeqLen(b)
  IN  IF n = 0 THEN [len |-> 1, ok |-> FALSE]
      ELSE IF n = 1 THEN [len |-> 1, ok |-> TRUE]
      ELSE IF i + 1 > Len(bs) \/ bs[i + 1] < SecondLo(b) \/ bs[i + 1] > SecondHi(b)
           THEN [len |-> 1, ok |-> FALSE]
      ELSE LET run == 1 + ContRun(bs, i + 2, n - 2)
           IN  [len |-> 1 + run, ok |-> (1 + run = n)]

CodePoint(bs, i, n) ==
  IF n = 1 THEN bs[i]
  ELSE IF n = 2 THEN (bs[i] % 32) * 64 + (bs[i + 1] % 64)
  ELSE IF n = 3 THEN (bs[i] % 16) * 4096 + (bs[i + 1] % 64) * 64 + (bs[i + 2] % 64)
  ELSE (bs[i] % 8) * 262144 + (bs[i + 1] % 64) * 4096
       + (bs[i + 2] % 64) * 64 + (bs[i + 3] % 64)

\* Buffer.prototype.toString(): UTF-8 decoding in which every ill-formed
\* subpart becomes U+FFFD.
RECURSIVE DecodeFrom(_, _)
DecodeFrom(bs, i) ==
  IF i > Len(bs) THEN <<>>
  ELSE LET sp == Subpart(bs, i)
       IN  <<IF sp.ok THEN CodePoint(bs, i, sp.len) ELSE 65533>>
           \o DecodeFrom(bs, i + sp.len)

toString(bs) == DecodeFrom(bs, 1)

RECURSIVE WellFormedFrom(_, _)
WellFormedFrom(bs, i) ==
  IF i > Len(bs) THEN TRUE
  ELSE LET sp == Subpart(bs, i)
       IN  sp.ok /\ WellFormedFrom(bs, i + sp.len)

\* The transport delivers a text frame only if it is well-formed UTF-8.
IsValidUtf8(bs) == WellFormedFrom(bs, 1)

\* UTF-8 encoding of one code point, as the transport encodes a string that
\* is passed to send().
EncodeCodePoint(cp) ==
  IF cp < 128 THEN <<cp>>
  ELSE IF cp < 2048 THEN <<192 + (cp \div 64), 128 + (cp % 64)>>
  ELSE IF cp < 65536
       THEN <<224 + (cp \div 4096), 128 + ((cp \div 64) % 64), 128 + (cp % 64)>>
  ELSE <<240 + (cp \div 262144), 128 + ((cp \div 4096) % 64),
         128 + ((cp \div 64) % 64), 128 + (cp % 64)>>

RECURSIVE Utf8Encode(_)
Utf8Encode(str) ==
  IF str = <<>> THEN <<>>
  ELSE EncodeCodePoint(Head(str)) \o Utf8Encode(Tail(str))

\* String.prototype.toLowerCase() on the characters of a command word.
ToLowerCaseIdentity(s) == s
ToLowerCase(s) ==
  [i \in DOMAIN s |-> IF s[i] >= 65 /\ s[i] <= 90 THEN s[i] + 32 ELSE s[i]]

\* Messages a remote end can deliver: text frames carry well-formed UTF-8,
\* binary frames carry any bytes.
Payloads ==
  { p \in [bin : BOOLEAN, bytes : SeqsUpTo(Bytes, MaxLen) \ { <<>> }] :
      p.bin \/ IsValidUtf8(p.bytes) }

Lines == SeqsUpTo(LineChars, 1) \ { <<>> }

\* ------------------------------------------------------------ construction
NoConnFn(v) == [c \in Conns |-> v]

Init ==
  /\ argv \in Argvs
  /\ mode = "init"
  /\ proc = "running"
  /\ exitCode = -1
  /\ exitCalls = 0
  /\ calls = <<>>
  /\ listener = "none"
  /\ clients = {}
  /\ readyState = NoConnFn("NONE")
  /\ sock = NoConnFn("none")
  /\ closeReq = NoConnFn(0)
  /\ errored = {}
  /\ inbound = <<>>
  /\ sendLog = <<>>
  /\ shutdowns = 0
  /\ peerState = "NONE"
  /\ rlActive = FALSE
  /\ peerSent = <<>>
  /\ peerNotices = 0
  /\ peerOut = <<>>
  /\ peerCloseReq = 0
  /\ peerErrors = 0
  /\ peerRead = <<>>
  /\ peerCloseCode = -1

\* Entries of the call log: connection 0 is the peer's own connection.
CloseCall(c, code) == [op |-> "close", conn |-> c, code |-> code]
WssCloseCall == [op |-> "wss.close", conn |-> 0, code |-> -1]
ExitCall(code) == [op |-> "exit", conn |-> 0, code |-> code]

\* process.exit(code): the process ends inside the running callback.
ExitAfter(log, code) ==
  /\ proc' = "exited"
  /\ exitCode' = code
  /\ exitCalls' = exitCalls + 1
  /\ calls' = Append(log, ExitCall(code))

Exit(code) == ExitAfter(calls, code)

\* ------------------------------------------------------------- entry point
\* The outcome of the dispatch on argv: which mode starts, or the exit code.
Command(args) ==
  IF Len(args) = 0 THEN "usage"
  ELSE LET command == ToLowerCase(args[1])
       IN  IF command = WordStart THEN "hub"
           ELSE IF command = WordConnect THEN "peer"
           ELSE "usage"

Main ==
  /\ mode = "init"
  /\ proc = "running"
  /\ mode' = Command(argv)
  /\ IF Command(argv) = "usage"
       THEN Exit(1)
       ELSE UNCHANGED <<proc, exitCode, exitCalls, calls>>
  /\ listener' = IF Command(argv) = "hub" THEN "binding" ELSE listener
  /\ peerState' = IF Command(argv) = "peer" THEN "CONNECTING" ELSE peerState
  /\ UNCHANGED <<argv, clients, readyState, sock, closeReq, errored, inbound,
                 sendLog, shutdowns, rlActive, peerSent, peerNotices, peerOut,
                 peerCloseReq, peerErrors, peerRead, peerCloseCode>>

\* --------------------------------------------------------------------- hub
HubRunning == mode = "hub" /\ proc = "running"

\* wss.on('listening'): the port is bound.
HubListening ==
  /\ HubRunning
  /\ listener = "binding"
  /\ listener' = "listening"
  /\ UNCHANGED <<procVars, clients, readyState, sock, closeReq, errored,
                 inbound, sendLog, shutdowns, peerVars>>

\* wss.on('error'): the port cannot be bound; the handler logs the error.
HubServerError ==
  /\ HubRunning
  /\ listener = "binding"
  /\ listener' = "failed"
  /\ UNCHANGED <<procVars, clients, readyState, sock, closeReq, errored,
                 inbound, sendLog, shutdowns, peerVars>>

\* After a failed bind nothing keeps the event loop alive (signal listeners
\* do not), so the process ends without any process.exit call.
HubLoopDrained ==
  /\ HubRunning
  /\ listener = "failed"
  /\ proc' = "drained"
  /\ exitCode' = 0
  /\ UNCHANGED <<argv, mode, exitCalls, calls, hubVars, peerVars>>

\* The connection the next accept creates: connections are numbered in the
\* order they are accepted, which is the iteration order of wss.clients.
Accepted == { c \in Conns : readyState[c] # "NONE" }
NextConn == Cardinality(Accepted) + 1

\* wss.clients once the handshake of c is complete (client tracking).
ClientsUntracked(cl, c) == cl
ClientsAfterConnection(cl, c) == cl \cup {c}

\* wss.on('connection'): the transport has completed the handshake, put the
\* connection into wss.clients in state OPEN and calls the handler, which
\* registers the connection's callbacks.
HubOnConnection ==
  /\ HubRunning
  /\ listener = "listening"
  /\ NextConn \in Conns
  /\ clients' = ClientsAfterConnection(clients, NextConn)
  /\ readyState' = [readyState EXCEPT ![NextConn] = "OPEN"]
  /\ sock' = [sock EXCEPT ![NextConn] = "up"]
  /\ UNCHANGED <<procVars, listener, closeReq, errored, inbound, sendLog,
                 shutdowns, peerVars>>

RECURSIVE InOrder(_)
InOrder(S) ==
  IF S = {} THEN <<>>
  ELSE LET first == CHOOSE c \in S : \A d \in S : c <= d
       IN  <<first>> \o InOrder(S \ {first})

\* The members a broadcast sends to: wss.clients.forEach with the
\* readyState === OPEN test.
RecipientsNotClosed(cl, rs) == { c \in cl : rs[c] # "CLOSED" }
RecipientsEverAccepted(cl, rs) == { c \in DOMAIN rs : rs[c] # "NONE" }
Recipients(cl, rs) == { c \in cl : rs[c] = "OPEN" }

\* client.send(msg) on an OPEN connection returns normally: a write that the
\* socket cannot complete is reported later, on that connection alone.
SendThrowsOnBrokenSocket(c, sk) == sk[c] = "broken"
SendThrows(c, sk) == FALSE

\* What client.send(msg) puts on the wire for a string: a text frame with
\* the UTF-8 encoding of the string.
Frame(msg) == [bin |-> FALSE, bytes |-> Utf8Encode(msg)]

\* The forEach loop of the message handler over the recipients in iteration
\* order: the send calls it makes, and whether a call threw out of the loop.
RECURSIVE BroadcastLoop(_, _, _, _)
BroadcastLoop(todo, sk, n, msg) ==
  IF todo = <<>> THEN [sends |-> <<>>, threw |-> FALSE]
  ELSE IF SendThrows(Head(todo), sk) THEN [sends |-> <<>>, threw |-> TRUE]
  ELSE LET rest == BroadcastLoop(Tail(todo), sk, n, msg)
       IN  [sends |-> <<[n |-> n, to |-> Head(todo), data |-> Frame(msg)]>>
                      \o rest.sends,
            threw |-> rest.threw]

\* The send calls so far once a handler has made further ones: send is
\* called inside the handler, after every call of the handlers before it.
LogAfterBroadcastFirst(log, sends) == sends \o log
LogAfterBroadcast(log, sends) == log \o sends

\* The transport still delivers messages of connection c: it is OPEN, or the
\* hub has requested its close and the remote end has not answered yet.
CanReceive(c) ==
  /\ sock[c] = "up"
  /\ c \notin errored
  /\ \/ readyState[c] = "OPEN"
     \/ readyState[c] = "CLOSING" /\ closeReq[c] > 0

\* ws.on('message') of a hub connection.
HubOnMessage(c, p) ==
  /\ HubRunning
  /\ CanReceive(c)
  /\ Len(inbound) < MaxMsgs
  /\ LET msg == toString(p.bytes)
         n   == Len(inbound) + 1
         run == BroadcastLoop(InOrder(Recipients(clients, readyState)),
                              sock, n, msg)
     IN  /\ inbound' = Append(inbound,
                         [from |-> c, data |-> p, removed |-> Accepted \ clients,
                          open |-> { m \in clients : readyState[m] = "OPEN" },
                          broken |-> { m \in clients : sock[m] = "broken" }])
         /\ sendLog' = LogAfterBroadcast(sendLog, run.sends)
         /\ proc' = IF run.threw THEN "crashed" ELSE proc
         /\ exitCode' = IF run.threw THEN 1 ELSE exitCode
  /\ UNCHANGED <<argv, mode, exitCalls, calls, listener, clients, readyState,
                 sock, closeReq, errored, shutdowns, peerVars>>

\* The socket of an OPEN connection stops accepting writes (remote end gone)
\* before the transport has noticed.
HubSocketBreak(c) ==
  /\ HubRunning
  /\ readyState[c] = "OPEN"
  /\ sock[c] = "up"
  /\ sock' = [sock EXCEPT ![c] = "broken"]
  /\ UNCHANGED <<procVars, listener, clients, readyState, closeReq, errored,
                 inbound, sendLog, shutdowns, peerVars>>

\* The transport notices that the socket of an OPEN connection has ended or
\* failed: the connection becomes CLOSING and its socket is destroyed.
HubSocketFail(c) ==
  /\ HubRunning
  /\ readyState[c] = "OPEN"
  /\ sock[c] \in {"up", "broken"}
  /\ readyState' = [readyState EXCEPT ![c] = "CLOSING"]
  /\ sock' = [sock EXCEPT ![c] = "closed"]
  /\ UNCHANGED <<procVars, listener, clients, closeReq, errored, inbound,
                 sendLog, shutdowns, peerVars>>

\* The remote end starts the close handshake on an OPEN connection: the
\* transport answers it and the connection becomes CLOSING.
HubRemoteClose(c) ==
  /\ HubRunning
  /\ readyState[c] = "OPEN"
  /\ sock[c] = "up"
  /\ readyState' = [readyState EXCEPT ![c] = "CLOSING"]
  /\ UNCHANGED <<procVars, listener, clients, sock, closeReq, errored,
                 inbound, sendLog, shutdowns, peerVars>>

\* The socket of a CLOSING connection ends: handshake finished, or the
\* transport's close timer destroyed it.
HubSocketClosed(c) ==
  /\ HubRunning
  /\ readyState[c] = "CLOSING"
  /\ sock[c] \in {"up", "broken"}
  /\ sock' = [sock EXCEPT ![c] = "closed"]
  /\ UNCHANGED <<procVars, listener, clients, readyState, closeReq, errored,
                 inbound, sendLog, shutdowns, peerVars>>

\* What the 'error' callback of a connection does to the process: it logs.
ProcAfterUnhandledError(p) == "crashed"
ProcAfterError(p) == p

\* ws.on('error') of a hub connection: the transport found a protocol fault
\* in the data of c, started closing c and reports the fault.
HubOnError(c) ==
  /\ HubRunning
  /\ CanReceive(c)
  /\ readyState' = [readyState EXCEPT ![c] = "CLOSING"]
  /\ errored' = errored \cup {c}
  /\ proc' = ProcAfterError(proc)
  /\ exitCode' = IF ProcAfterError(proc) = "crashed" THEN 1 ELSE exitCode
  /\ UNCHANGED <<argv, mode, exitCalls, calls, listener, clients, sock,
                 closeReq, inbound, sendLog, shutdowns, peerVars>>

\* wss.clients after the 'close' event of c: the transport's own listener
\* deletes c, the program's listener logs.
ClientsAfterCloseKept(cl, c) == cl
ClientsAfterCloseCleared(cl, c) == {}
ClientsAfterClose(cl, c) == cl \ {c}

\* ws.on('close') of a hub connection.
HubOnClose(c) ==
  /\ HubRunning
  /\ readyState[c] = "CLOSING"
  /\ sock[c] = "closed"
  /\ readyState' = [readyState EXCEPT ![c] = "CLOSED"]
  /\ clients' = ClientsAfterClose(clients, c)
  /\ UNCHANGED <<procVars, listener, sock, closeReq, errored, inbound,
                 sendLog, shutdowns, peerVars>>

\* The members closeAllConnections requests a close on.
CloseTargetsNone(cl, rs) == {}
CloseTargetsNotClosed(cl, rs) == { c \in cl : rs[c] # "CLOSED" }
CloseTargets(cl, rs) == { c \in cl : rs[c] = "OPEN" }

\* The calls of one run of closeAllConnections: the forEach loop with its
\* client.close(1001, ...) calls, then wss.close.
RECURSIVE CloseCalls(_)
CloseCalls(todo) ==
  IF todo = <<>> THEN <<>>
  ELSE <<CloseCall(Head(todo), 1001)>> \o CloseCalls(Tail(todo))

SignalCallsListenerFirst(todo) == <<WssCloseCall>> \o CloseCalls(todo)
SignalCalls(todo) == CloseCalls(todo) \o <<WssCloseCall>>

\* closeAllConnections, the handler of SIGINT and of SIGTERM: client.close
\* on every OPEN member, then wss.close(callback).
HubSignal ==
  /\ HubRunning
  /\ listener \in {"listening", "closing"}
  /\ shutdowns < MaxSignals
  /\ shutdowns' = shutdowns + 1
  /\ readyState' = [c \in Conns |->
                      IF c \in CloseTargets(clients, readyState)
                        THEN "CLOSING" ELSE readyState[c]]
  /\ closeReq' = [c \in Conns |->
                    IF c \in CloseTargets(clients, readyState)
                      THEN closeReq[c] + 1 ELSE closeReq[c]]
  /\ listener' = "closing"
  /\ calls' = calls \o SignalCalls(InOrder(CloseTargets(clients, readyState)))
  /\ UNCHANGED <<argv, mode, proc, exitCode, exitCalls, clients, sock,
                 errored, inbound, sendLog, peerVars>>

\* The callback of wss.close: the listening socket and every connection
\* socket are closed; the callback logs and calls process.exit(0).
HubServerClosed ==
  /\ HubRunning
  /\ listener = "closing"
  /\ \A c \in Conns : sock[c] \notin {"up", "broken"}
  /\ listener' = "closed"
  /\ Exit(0)
  /\ UNCHANGED <<argv, mode, clients, readyState, sock, closeReq, errored,
                 inbound, sendLog, shutdowns, peerVars>>

\* -------------------------------------------------------------------- peer
PeerRunning == mode = "peer" /\ proc = "running"

\* ws.on('open'): creates the readline interface.
PeerOnOpen ==
  /\ PeerRunning
  /\ peerState = "CONNECTING"
  /\ peerState' = "OPEN"
  /\ rlActive' = TRUE
  /\ UNCHANGED <<procVars, hubVars, peerSent, peerNotices, peerOut,
                 peerCloseReq, peerErrors, peerRead, peerCloseCode>>

\* The exit code the 'close' callback of the peer passes to process.exit
\* for a connection that closed with the given close code.
ExitCodeOnCloseByCode(code) == IF code = 1000 THEN 0 ELSE 1
ExitCodeOnClose(code) == 0

\* The connection attempt fails: the transport calls the 'error' callback,
\* which logs, and then the 'close' callback, which exits.
PeerConnectFail ==
  /\ PeerRunning
  /\ peerState = "CONNECTING"
  /\ peerErrors' = peerErrors + 1
  /\ peerState' = "CLOSED"
  /\ peerCloseCode' = 1006
  /\ Exit(ExitCodeOnClose(1006))
  /\ UNCHANGED <<argv, mode, hubVars, rlActive, peerSent, peerNotices,
                 peerOut, peerCloseReq, peerRead>>

\* The test of the line handler: ws.readyState === WebSocket.OPEN.
LineIsSentUnlessClosed(st) == st # "CLOSED"
LineIsSent(st) == st = "OPEN"

\* rl.on('line').
PeerOnLine(line) ==
  /\ PeerRunning
  /\ rlActive
  /\ Len(peerRead) < MaxLines
  /\ peerRead' = Append(peerRead, [line |-> line, open |-> peerState = "OPEN"])
  /\ IF LineIsSent(peerState)
       THEN /\ peerSent' = Append(peerSent, line)
            /\ UNCHANGED peerNotices
       ELSE /\ peerNotices' = peerNotices + 1
            /\ UNCHANGED peerSent
  /\ UNCHANGED <<procVars, hubVars, peerState, rlActive, peerOut,
                 peerCloseReq, peerErrors, peerCloseCode>>

\* ws.on('message') of the peer: prints "> " and the text of the message.
PeerOnMessage(p) ==
  /\ PeerRunning
  /\ peerState = "OPEN"
  /\ Len(peerOut) < MaxPeerMsgs
  /\ peerOut' = Append(peerOut, <<62, 32>> \o toString(p.bytes))
  /\ UNCHANGED <<procVars, hubVars, peerState, rlActive, peerSent,
                 peerNotices, peerCloseReq, peerErrors, peerRead,
                 peerCloseCode>>

\* Close codes with which the connection of the peer ends without the peer
\* asking: the hub's shutdown, a close by the hub without a code, a lost
\* connection.
RemoteCloseCodes == {1001, 1005, 1006}

\* The hub or the network ends the connection: it becomes CLOSING until the
\* socket is gone.
PeerClosing(code) ==
  /\ PeerRunning
  /\ peerState = "OPEN"
  /\ peerState' = "CLOSING"
  /\ peerCloseCode' = code
  /\ UNCHANGED <<procVars, hubVars, rlActive, peerSent, peerNotices, peerOut,
                 peerCloseReq, peerErrors, peerRead>>

\* ws.on('error') of the peer on an established connection: logs.
PeerOnError ==
  /\ PeerRunning
  /\ peerState = "OPEN"
  /\ peerState' = "CLOSING"
  /\ peerErrors' = peerErrors + 1
  /\ peerCloseCode' = 1006
  /\ UNCHANGED <<procVars, hubVars, rlActive, peerSent, peerNotices, peerOut,
                 peerCloseReq, peerRead>>

\* ws.on('close') of the peer: logs the code and the reason, exits.
PeerOnClose ==
  /\ PeerRunning
  /\ peerState = "CLOSING"
  /\ peerState' = "CLOSED"
  /\ Exit(ExitCodeOnClose(peerCloseCode))
  /\ UNCHANGED <<argv, mode, hubVars, rlActive, peerSent, peerNotices,
                 peerOut, peerCloseReq, peerErrors, peerRead, peerCloseCode>>

\* The test of shutdownClient: ws.readyState === WebSocket.OPEN.
ShouldCloseAlways(st) == TRUE
ShouldClose(st) == st = "OPEN"

\* shutdownClient, the handler of SIGINT and of SIGTERM.
PeerSignal ==
  /\ PeerRunning
  /\ IF ShouldClose(peerState)
       THEN /\ peerState' = "CLOSING"
            /\ peerCloseReq' = peerCloseReq + 1
            /\ ExitAfter(Append(calls, CloseCall(0, 1000)), 0)
       ELSE /\ UNCHANGED <<peerState, peerCloseReq>>
            /\ Exit(0)
  /\ UNCHANGED <<argv, mode, hubVars, rlActive, peerSent, peerNotices,
                 peerOut, peerErrors, peerRead, peerCloseCode>>

\* ----------------------------------------------------------- specification
Next ==
  \/ Main
  \/ HubListening
  \/ HubServerError
  \/ HubLoopDrained
  \/ HubOnConnection
  \/ \E c \in Conns, p \in Payloads : HubOnMessage(c, p)
  \/ \E c \in Conns : HubSocketBreak(c)
  \/ \E c \in Conns : HubSocketFail(c)
  \/ \E c \in Conns : HubRemoteClose(c)
  \/ \E c \in Conns : HubSocketClosed(c)
  \/ \E c \in Conns : HubOnError(c)
  \/ \E c \in Conns : HubOnClose(c)
  \/ HubSignal
  \/ HubServerClosed
  \/ PeerOnOpen
  \/ PeerConnectFail
  \/ \E line \in Lines : PeerOnLine(line)
  \/ \E p \in Payloads : PeerOnMessage(p)
  \/ \E code \in RemoteCloseCodes : PeerClosing(code)
  \/ PeerOnError
  \/ PeerOnClose
  \/ PeerSignal

Spec == Init /\ [][Next]_vars

\* The transport completes what it has started: a CLOSING connection's
\* socket ends (close timer), a closed socket's 'close' event is emitted,
\* and a closing server reports its close.
FairSpec ==
  /\ Spec
  /\ \A c \in Conns : WF_vars(HubSocketClosed(c))
  /\ \A c \in Conns : WF_vars(HubOnClose(c))
  /\ WF_vars(HubServerClosed)
  /\ WF_vars(HubLoopDrained)

\* ------------------------------------------------------------------ claims
Closed == { c \in Conns : readyState[c] = "CLOSED" }

\* The send calls of broadcast n to member m.
SendsTo(n, m) == { i \in DOMAIN sendLog : sendLog[i].n = n /\ sendLog[i].to = m }

\* The step is the 'error' callback of c / the 'close' callback of c.
ErrorStep(c) == c \notin errored /\ c \in errored'
CloseStep(c) == readyState[c] # "CLOSED" /\ readyState'[c] = "CLOSED"

\* C1: every inbound message is sent exactly once, with the bytes it
\* arrived with, to each member that is OPEN when the hub processes it, and
\* to no other connection.
C1_BroadcastExactlyOnceUnmodified ==
  \A n \in DOMAIN inbound :
    /\ \A m \in inbound[n].open : Cardinality(SendsTo(n, m)) = 1
    /\ \A i \in DOMAIN sendLog :
         sendLog[i].n = n =>
           /\ sendLog[i].to \in inbound[n].open
           /\ sendLog[i].data.bytes = inbound[n].data.bytes

\* C2: however many shutdown signals the hub gets, the close sequence runs
\* once and process.exit is called once.
C2_OneCloseSequenceOneExit ==
  mode = "hub" => shutdowns <= 1 /\ exitCalls <= 1

\* C3: every member of the connection set is CONNECTING or OPEN.
C3_MembersOpenOrConnecting ==
  \A c \in clients : readyState[c] \in {"CONNECTING", "OPEN"}

\* C3, amended: every member of the connection set is OPEN or CLOSING; no
\* member is CONNECTING or CLOSED.
C3_MembersOpenOrClosing ==
  \A c \in clients : readyState[c] \in {"OPEN", "CLOSING"}

\* A member on which the hub's shutdown has requested a close and whose
\* close callback has not run, next to a member that is not OPEN for
\* another reason.
C3_Witness ==
  /\ \E c \in clients : readyState[c] = "CLOSING" /\ closeReq[c] > 0
  /\ \E c \in clients : readyState[c] = "CLOSING" /\ closeReq[c] = 0

\* C4: no broadcast sends to a connection that has been removed from the
\* connection set.
C4_NoSendAfterRemoval ==
  [][\A i \in DOMAIN sendLog' :
       i > Len(sendLog) => sendLog'[i].to \notin (Accepted \ clients)]_vars

\* A broadcast that happened after a connection was removed and that sent
\* to a remaining member.
C4_Witness ==
  \E n \in DOMAIN inbound :
    /\ inbound[n].removed # {}
    /\ \E m \in inbound[n].open : SendsTo(n, m) # {}

\* C5: the size of the connection set is the number of connections that
\* were accepted and have not closed; a connect adds one member, a close
\* removes one.
C5_SizeTracksLiveConnections ==
  /\ [](Cardinality(clients) = Cardinality(Accepted \ Closed))
  /\ [][/\ Accepted' # Accepted =>
             Cardinality(clients') = Cardinality(clients) + 1
        /\ (\E c \in Conns : CloseStep(c)) =>
             Cardinality(clients') = Cardinality(clients) - 1]_vars

\* Two connections were accepted, one of them has closed, the other is a
\* member.
C5_Witness ==
  /\ Cardinality(Accepted) = 2
  /\ Cardinality(Closed) = 1
  /\ Cardinality(clients) = 1

\* C6: when the error callback and then the close callback run for the
\* same connection, the second of them leaves the connection set unchanged.
C6_SecondCallbackLeavesSet ==
  [][\A c \in errored : CloseStep(c) => clients' = clients]_vars

\* C6, amended: the error callback leaves the connection set unchanged; the
\* close callback removes its connection, which was a member, and nothing
\* else; a closed connection stays closed and outside the set.
C6_RemovalByCloseCallbackOnly ==
  [][\A c \in Conns :
       /\ ErrorStep(c) => clients' = clients
       /\ CloseStep(c) => c \in clients /\ clients' = clients \ {c}
       /\ c \in Closed => c \in Closed' /\ c \notin clients']_vars

\* The error callback and then the close callback have run for a
\* connection while another connection is a member.
C6_Witness ==
  \E c \in errored : c \in Closed /\ clients # {}

\* The 'error' callback of a connection leaves the process running, the
\* listener as it is, and every other connection as it is.
ErrorContained ==
  \A c \in Conns :
    ErrorStep(c) =>
      /\ proc' = "running"
      /\ listener' = listener
      /\ \A d \in Conns \ {c} :
           /\ readyState'[d] = readyState[d]
           /\ (d \in clients <=> d \in clients')

\* C7: a transport error on a connection is contained, and the connection
\* is eventually removed from the connection set.
C7_ErrorContainedAndRemoved ==
  /\ [][ErrorContained]_vars
  /\ \A c \in Conns : (c \in errored) ~> (c \notin clients)

\* C7, amended: a transport error on a connection is contained, and the
\* connection is eventually removed from the connection set unless the
\* process ends first.
C7_ErrorContainedAndRemovedWhileRunning ==
  /\ [][ErrorContained]_vars
  /\ \A c \in Conns : (c \in errored) ~> (c \notin clients \/ proc # "running")

\* After the error of a connection and its removal the hub is running and
\* has broadcast a later message to another member.
C7_Witness ==
  /\ proc = "running"
  /\ \E c \in errored, n \in DOMAIN inbound :
       /\ c \in inbound[n].removed
       /\ \E m \in inbound[n].open : m # c /\ SendsTo(n, m) # {}

\* C8: a send that fails on one member neither aborts the broadcast nor
\* raises: every member that is OPEN gets its send call.
C8_SendFailureDoesNotAbort ==
  /\ proc # "crashed"
  /\ \A n \in DOMAIN inbound :
       \A m \in inbound[n].open : SendsTo(n, m) # {}

\* A broadcast in which the socket of one OPEN member was broken and a
\* member after it in iteration order was sent the payload.
C8_Witness ==
  \E n \in DOMAIN inbound :
    \E b \in inbound[n].broken \cap inbound[n].open :
      \E m \in inbound[n].open : m > b /\ SendsTo(n, m) # {}

\* C9: when the listener cannot bind its port the process ends with exit
\* code 1.
C9_BindFailureExitsNonZero ==
  listener = "failed" => proc # "running" /\ exitCode = 1

\* C10: when the connection attempt of the peer fails before the connection
\* was ever open, the process exits with code 1 and no line was sent.
C10_ConnectFailureExitsOne ==
  (mode = "peer" /\ peerState = "CLOSED" /\ ~rlActive) =>
    exitCode = 1 /\ peerSent = <<>>

\* The calls a step adds to the call log.
NewCalls == SubSeq(calls', Len(calls) + 1, Len(calls'))

\* C11: the first run of closeAllConnections requests a close with code
\* 1001 on every OPEN member before it calls wss.close, and the hub calls
\* process.exit, with code 0, only in the step that completes the close of
\* the listener.
C11_CloseMembersThenListenerThenExit ==
  [][/\ (mode = "hub" /\ shutdowns = 0 /\ shutdowns' = 1) =>
          \E k \in DOMAIN NewCalls :
            /\ NewCalls[k] = WssCloseCall
            /\ \A c \in clients :
                 readyState[c] = "OPEN" =>
                   \E i \in 1..(k - 1) : NewCalls[i] = CloseCall(c, 1001)
     /\ (mode = "hub" /\ exitCalls' # exitCalls) =>
          /\ exitCode' = 0
          /\ shutdowns >= 1
          /\ listener = "closing" /\ listener' = "closed"]_vars

\* The hub has exited after a shutdown that requested a close on two OPEN
\* members.
C11_Witness ==
  /\ mode = "hub"
  /\ proc = "exited"
  /\ Cardinality({ c \in Conns : closeReq[c] >= 1 }) = 2

\* C12: the close callback of an established peer connection ends the
\* process with exit code 0, and an ended process sends no line and prints
\* no message.
C12_CloseCallbackExitsZero ==
  [][mode = "peer" =>
       /\ (rlActive /\ peerState # "CLOSED" /\ peerState' = "CLOSED") =>
            proc' = "exited" /\ exitCode' = 0
       /\ proc # "running" => peerSent' = peerSent /\ peerOut' = peerOut]_vars

\* The hub's shutdown has closed an established connection over which the
\* peer had sent a line and printed a message, and the peer has exited.
C12_Witness ==
  /\ mode = "peer"
  /\ peerState = "CLOSED"
  /\ peerCloseCode = 1001
  /\ peerSent # <<>>
  /\ peerOut # <<>>
  /\ proc = "exited"

\* The lines among the first k read that were read while the connection was
\* OPEN.
RECURSIVE ReadWhileOpen(_)
ReadWhileOpen(k) ==
  IF k = 0 THEN <<>>
  ELSE IF peerRead[k].open
         THEN Append(ReadWhileOpen(k - 1), peerRead[k].line)
         ELSE ReadWhileOpen(k - 1)

\* C13: the lines sent are exactly the lines read while the connection was
\* OPEN, each once and in order; every other line read got a notice and is
\* not sent.
C13_LinesSentIffOpen ==
  /\ peerSent = ReadWhileOpen(Len(peerRead))
  /\ peerNotices = Len(peerRead) - Len(peerSent)

\* A line read while the connection was OPEN and a later line read while
\* it was not.
C13_Witness ==
  /\ Len(peerRead) = 2
  /\ peerRead[1].open
  /\ ~peerRead[2].open
  /\ Len(peerSent) = 1
  /\ peerNotices = 1

\* The step is a run of shutdownClient: the peer process ends and its
\* connection has had no close event.
PeerSignalStep ==
  mode = "peer" /\ proc = "running" /\ proc' # "running" /\ peerState' # "CLOSED"

\* C14: shutdownClient requests a close with code 1000 exactly if the
\* connection is OPEN and calls process.exit(0) in the same step; the peer
\* calls process.exit at most once.
C14_SignalClosesIfOpenAndExits ==
  /\ [][PeerSignalStep =>
          /\ NewCalls = (IF peerState = "OPEN" THEN <<CloseCall(0, 1000)>>
                                               ELSE <<>>) \o <<ExitCall(0)>>
          /\ exitCode' = 0]_vars
  /\ [](mode = "peer" => exitCalls <= 1)

\* The peer has exited on a signal that found its connection OPEN.
C14_Witness ==
  /\ mode = "peer"
  /\ calls = <<CloseCall(0, 1000), ExitCall(0)>>
  /\ peerState = "CLOSING"

\* C15: the send calls of the hub are in the order of the inbound messages
\* they relay: no send of a later message precedes a send of an earlier one.
C15_SendsInProcessingOrder ==
  \A i, j \in DOMAIN sendLog : i < j => sendLog[i].n <= sendLog[j].n

\* One member was sent two messages.
C15_Witness ==
  \E m \in Conns : SendsTo(1, m) # {} /\ SendsTo(2, m) # {}

\* The three outcomes of the dispatch.
UsageOutcome ==
  mode = "usage" /\ exitCode = 1 /\ listener = "none" /\ peerState = "NONE"
HubOutcome == mode = "hub" /\ listener # "none" /\ peerState = "NONE"
PeerOutcome == mode = "peer" /\ listener = "none" /\ peerState # "NONE"

\* Word w is the lower-case word except for the case of its letters.
EqualsIgnoringCase(w, word) ==
  /\ Len(w) = Len(word)
  /\ \A i \in DOMAIN w : w[i] = word[i] \/ w[i] = word[i] - 32

\* C16: no argument exits with 1, first argument 'start' runs the hub,
\* 'connect' runs the peer, every other first argument exits with 1.
C16_DispatchOnExactWord ==
  mode # "init" =>
    IF argv = <<>> THEN UsageOutcome
    ELSE IF argv[1] = WordStart THEN HubOutcome
    ELSE IF argv[1] = WordConnect THEN PeerOutcome
    ELSE UsageOutcome

\* C16, amended: the first argument is compared without regard to case.
C16_DispatchIgnoringCase ==
  mode # "init" =>
    IF argv = <<>> THEN UsageOutcome
    ELSE IF EqualsIgnoringCase(argv[1], WordStart) THEN HubOutcome
    ELSE IF EqualsIgnoringCase(argv[1], WordConnect) THEN PeerOutcome
    ELSE UsageOutcome

\* The hub runs on a first argument that is not the lower-case word.
C16_Witness ==
  mode = "hub" /\ argv[1] # WordStart

\* C17: once the hub has handled a shutdown signal it eventually exits with
\* code 0.
C17_SignalLeadsToExit ==
  (mode = "hub" /\ shutdowns >= 1) ~> (proc = "exited" /\ exitCode = 0)

\* The hub has exited with code 0 after a shutdown that found one member
\* OPEN and one member not OPEN, which was not asked to close.
C17_Witness ==
  /\ mode = "hub"
  /\ proc = "exited"
  /\ exitCode = 0
  /\ \E c, d \in Accepted : closeReq[c] = 1 /\ closeReq[d] = 0 /\ d \in clients

\* C18: the hub requests a close on a connection at most once.
C18_CloseRequestedAtMostOnce ==
  \A c \in Conns : closeReq[c] <= 1

\* A second signal was handled while a connection on which the first had
\* requested a close was still a member.
C18_Witness ==
  shutdowns = 2 /\ \E c \in clients : closeReq[c] = 1

\* C19: no send goes to a connection on which the shutdown has requested a
\* close, and no connection is added once wss.close has been called.
C19_NoSendToClosingNoNewMember ==
  [][/\ \A i \in DOMAIN sendLog' :
          i > Len(sendLog) => closeReq[sendLog'[i].to] = 0
     /\ listener \in {"closing", "closed"} =>
          Accepted' = Accepted /\ clients' \subseteq clients]_vars

\* The hub has processed a message of a connection that it had asked to
\* close, and sent it to nobody.
C19_Witness ==
  \E n \in DOMAIN inbound :
    /\ inbound[n].from \notin inbound[n].open
    /\ \A m \in Conns : SendsTo(n, m) = {}

=============================================================================
